---- MODULE Spec2Model ----
(***************************************************************************)
(* The verifier service of vcxagent-core (service-verifier.js): the        *)
(* operations createProof, sendProofRequest, proofUpdate, getState,        *)
(* listIds, printInfo and getVcxProof over the injected collaborators      *)
(* (loadConnection, saveProof, loadProof, listProofIds, logger) and the    *)
(* Proof object of the native wrapper.                                     *)
(*                                                                         *)
(* The service code is translated from the source.  The collaborators and  *)
(* the Proof state machine are not part of the source excerpt: they are    *)
(* modelled from sections 3, 4.1-4.3, 6 and 7 of the specification.        *)
(***************************************************************************)
EXTENDS Integers, Sequences, FiniteSets

\* ------------------------------------------------------------------ bounds

\* proofIds a caller may use: 1..MaxProofs
MaxProofs == 2
\* proof request threads the state machine may open in one behaviour
MaxThreads == 1
\* longest id list handed to printInfo (the ids of a list are distinct)
MaxIds == 2

ProofIds == 1..MaxProofs

\* Connections the ConnectionResolver knows, and the ids a caller may pass
\* ("connX" resolves to nothing).
Connections == {"conn1"}
ConnectionIds == Connections \cup {"connX"}

\* Proof criteria a caller may pass: valid ones, and a malformed one.
ValidProofData == {"attrsName"}
ProofDatas == ValidProofData \cup {"malformed"}

\* What the counterparty may answer to a proof request.
PresentationKinds == {"valid", "invalid", "declined", "malformed"}

IdLists ==
  {l \in UNION {[1..n -> ProofIds] : n \in 0..MaxIds} :
     \A i, j \in DOMAIN l : i # j => l[i] # l[j]}

\* ------------------------------------------------------------ data model

NoMessage == [thread |-> 0, payload |-> ""]
NoConnection == ""
NoProof == [state |-> "NONE", proofRequestPayload |-> "",
            proofRequestMessage |-> NoMessage, connectionId |-> NoConnection,
            lastError |-> ""]

NoError == [kind |-> "none", what |-> ""]
Err(kind, what) == [kind |-> kind, what |-> what]

VARIABLES
  store,       \* ProofStore: proofId -> persisted record (known ids only)
  inbox,       \* per connection: queue of counterparty messages not yet polled
  awaiting,    \* <<connection, thread>>: requests dispatched and not yet answered
  nextThread,  \* next fresh thread id of a generated proof request message
  last,        \* the last completed service call: arguments, result, effects
  created,     \* proofIds for which a createProof call has returned
  cli,         \* the interactive client: where its loop is, and its last input
  run          \* two service calls in flight at once, each at one of its awaits

vars == <<store, inbox, awaiting, nextThread, last, created, cli, run>>

\* The collaborators' state an operation runs against.
World == [store |-> store, inbox |-> inbox, awaiting |-> awaiting,
          nextThread |-> nextThread]

\* ------------------------------------------- collaborators (section 4.1, 4.2, 6)

\* ProofStore.save: persists or overwrites the record kept under proofId.
saveProof(st, proofId, proof) ==
  [p \in (DOMAIN st) \cup {proofId} |-> IF p = proofId THEN proof ELSE st[p]]

\* ProofStore.load: the record kept under proofId, or NotFound.
loadProof(st, proofId) ==
  IF proofId \in DOMAIN st
    THEN [error |-> NoError, proof |-> st[proofId]]
    ELSE [error |-> Err("NotFound", "proof"), proof |-> NoProof]

\* ProofStore.listIds: all known ids as a sequence; `order` is the storage's
\* (unspecified) enumeration order, a bijection 1..n -> known ids.
listProofIds(st, order) == order

Orders(st) ==
  {o \in [1..Cardinality(DOMAIN st) -> DOMAIN st] :
     \A i, j \in DOMAIN o : i # j => o[i] # o[j]}

\* ConnectionResolver.load: a handle for a known connection, or NotFound.
loadConnection(connectionId) ==
  IF connectionId \in Connections
    THEN [error |-> NoError, connection |-> connectionId]
    ELSE [error |-> Err("NotFound", "connection"), connection |-> NoConnection]

\* ------------------------------------------- ProofStateMachine (section 4.3)

\* (none) --create(proofData)--> INITIAL; malformed criteria are a ValidationError.
ProofCreate(proofData) ==
  IF proofData \in ValidProofData
    THEN [error |-> NoError,
          proof |-> [state |-> "INITIAL", proofRequestPayload |-> proofData,
                     proofRequestMessage |-> NoMessage,
                     connectionId |-> NoConnection, lastError |-> ""]]
    ELSE [error |-> Err("ValidationError", "proofData"), proof |-> NoProof]

\* INITIAL --requestProof(connection)--> REQUEST_SENT: generates the proof
\* request message (on a fresh thread) and dispatches it over the connection.
\* A transport error is thrown and leaves the record as it was.  The table
\* gives requestProof no transition from any other state: the call is refused.
requestProof(proof, connection, transportOk, thread) ==
  IF proof.state # "INITIAL"
    THEN [error |-> Err("InvalidState", "proof"), proof |-> proof, sent |-> NoMessage]
  ELSE IF ~transportOk
    THEN [error |-> Err("TransportError", "connection"), proof |-> proof,
          sent |-> NoMessage]
  ELSE LET msg == [thread |-> thread, payload |-> proof.proofRequestPayload]
       IN [error |-> NoError,
           proof |-> [proof EXCEPT !.state = "REQUEST_SENT",
                                   !.proofRequestMessage = msg,
                                   !.connectionId = connection],
           sent |-> msg]

Proof_getState(proof) == proof.state

\* The cached message: computed once by requestProof, only read here.
getProofRequestMessage(proof) == proof.proofRequestMessage

NoPresentation == [thread |-> 0, kind |-> "none"]

\* Positions in the connection's queue of messages on the record's thread.
Matching(proof, queue) ==
  {i \in 1..Len(queue) :
     /\ proof.proofRequestMessage # NoMessage
     /\ queue[i].thread = proof.proofRequestMessage.thread}

Min(S) == CHOOSE x \in S : \A y \in S : x <= y

Remove(queue, i) == [j \in 1..(Len(queue) - 1) |-> IF j < i THEN queue[j] ELSE queue[j + 1]]

\* The poll.  A transport error is thrown and leaves the record as it was.
\* Without a message on the record's thread the poll changes nothing.  The
\* first such message is taken from the queue: a malformed one is an
\* unrecoverable error (any -> FAILED); in REQUEST_SENT a valid presentation
\* gives VERIFIED, an invalid or declined one REJECTED with the reason cached.
\* Any other state has no transition on a presentation: it is left queued.
updateStateV2(proof, connection, queue, transportOk) ==
  LET m == Matching(proof, queue)
      unchanged == [error |-> NoError, proof |-> proof, state |-> proof.state,
                    queue |-> queue, polled |-> NoPresentation]
  IN IF ~transportOk
       THEN [unchanged EXCEPT !.error = Err("TransportError", "connection")]
     ELSE IF m = {} THEN unchanged
     ELSE LET i == Min(m)
              msg == queue[i]
              next == IF msg.kind = "malformed"
                        THEN [proof EXCEPT !.state = "FAILED", !.lastError = "malformed"]
                      ELSE IF msg.kind = "valid"
                        THEN [proof EXCEPT !.state = "VERIFIED"]
                      ELSE [proof EXCEPT !.state = "REJECTED", !.lastError = msg.kind]
          IN IF msg.kind # "malformed" /\ proof.state # "REQUEST_SENT"
               THEN unchanged
               ELSE [error |-> NoError, proof |-> next, state |-> next.state,
                     queue |-> Remove(queue, i), polled |-> msg]

\* The effect of a dispatched proof request on the channel: the counterparty
\* now owes an answer on the message's thread.
Dispatch(w, connection, msg) ==
  [w EXCEPT !.awaiting = @ \cup {<<connection, msg.thread>>},
            !.nextThread = @ + 1]

\* ------------------------------------------------ ProofService (the source)

\* What a service call yields: the collaborators' state after it, what it
\* returns or throws, and what it did on the way (collaborator calls in order,
\* saveProof calls, dispatched messages, log lines).
Out(w) ==
  [world |-> w, state |-> "", message |-> NoMessage, proof |-> NoProof,
   ids |-> <<>>, error |-> NoError, polled |-> NoPresentation,
   trace |-> <<>>, saves |-> <<>>, dispatched |-> <<>>, logged |-> <<>>]

Line(level, about, id, state) ==
  [level |-> level, about |-> about, id |-> id, state |-> state]

\* The settle delay of createProof, in milliseconds.
SettleDelay == 1000

\* createProof without its saveProof.
createProof_NoSave(w, proofId, proofData) ==
  LET c == ProofCreate(proofData)
  IN [Out(w) EXCEPT !.logged = <<Line("info", "creating", proofId, "")>>,
                    !.trace = <<"logger.info", "sleep", "Proof.create">>,
                    !.error = c.error, !.proof = c.proof]

createProof(w, proofId, proofData) ==
  LET begun == [Out(w) EXCEPT
                  !.logged = <<Line("info", "creating", proofId, "")>>,
                  !.trace = <<"logger.info", "sleep", "Proof.create">>]
      c == ProofCreate(proofData)
  IN IF c.error # NoError
       THEN [begun EXCEPT !.error = c.error]
       ELSE [begun EXCEPT
               !.world.store = saveProof(w.store, proofId, c.proof),
               !.trace = Append(@, "saveProof"),
               !.saves = <<proofId>>,
               !.proof = c.proof]

\* sendProofRequest that does not stop at a connection it could not load.
sendProofRequest_UncheckedConnection(w, connectionId, proofId, transportOk) ==
  LET p == loadProof(w.store, proofId)
      r == requestProof(p.proof, connectionId, transportOk, w.nextThread)
  IN IF p.error # NoError
       THEN [Out(w) EXCEPT !.error = p.error,
                           !.trace = <<"loadConnection", "loadProof">>]
     ELSE IF r.error # NoError
       THEN [Out(w) EXCEPT !.error = r.error,
                           !.trace = <<"loadConnection", "loadProof", "requestProof">>]
     ELSE [Out([w EXCEPT !.nextThread = @ + 1]) EXCEPT
             !.world.store = saveProof(w.store, proofId, r.proof),
             !.state = Proof_getState(r.proof),
             !.message = getProofRequestMessage(r.proof),
             !.dispatched = <<[connection |-> connectionId, message |-> r.sent]>>,
             !.saves = <<proofId>>,
             !.trace = <<"loadConnection", "loadProof", "requestProof", "getState",
                         "getProofRequestMessage", "saveProof">>]

\* sendProofRequest without its saveProof.
sendProofRequest_NoSave(w, connectionId, proofId, transportOk) ==
  LET c == loadConnection(connectionId)
      p == loadProof(w.store, proofId)
      r == requestProof(p.proof, c.connection, transportOk, w.nextThread)
  IN IF c.error # NoError
       THEN [Out(w) EXCEPT !.error = c.error, !.trace = <<"loadConnection">>]
     ELSE IF p.error # NoError
       THEN [Out(w) EXCEPT !.error = p.error,
                           !.trace = <<"loadConnection", "loadProof">>]
     ELSE IF r.error # NoError
       THEN [Out(w) EXCEPT !.error = r.error,
                           !.trace = <<"loadConnection", "loadProof", "requestProof">>]
     ELSE [Out(Dispatch(w, c.connection, r.sent)) EXCEPT
             !.state = Proof_getState(r.proof),
             !.message = getProofRequestMessage(r.proof),
             !.dispatched = <<[connection |-> c.connection, message |-> r.sent]>>,
             !.trace = <<"loadConnection", "loadProof", "requestProof", "getState",
                         "getProofRequestMessage">>]

\* sendProofRequest whose read of the message builds it anew, on a new thread.
sendProofRequest_Regenerates(w, connectionId, proofId, transportOk) ==
  LET c == loadConnection(connectionId)
      p == loadProof(w.store, proofId)
      r == requestProof(p.proof, c.connection, transportOk, w.nextThread)
  IN IF c.error # NoError
       THEN [Out(w) EXCEPT !.error = c.error, !.trace = <<"loadConnection">>]
     ELSE IF p.error # NoError
       THEN [Out(w) EXCEPT !.error = p.error,
                           !.trace = <<"loadConnection", "loadProof">>]
     ELSE IF r.error # NoError
       THEN [Out(w) EXCEPT !.error = r.error,
                           !.trace = <<"loadConnection", "loadProof", "requestProof">>]
     ELSE [Out(Dispatch(w, c.connection, r.sent)) EXCEPT
             !.world.store = saveProof(w.store, proofId, r.proof),
             !.state = Proof_getState(r.proof),
             !.message = [r.sent EXCEPT !.thread = @ + 1],
             !.dispatched = <<[connection |-> c.connection, message |-> r.sent]>>,
             !.saves = <<proofId>>,
             !.trace = <<"loadConnection", "loadProof", "requestProof", "getState",
                         "getProofRequestMessage", "saveProof">>]

sendProofRequest(w, connectionId, proofId, transportOk) ==
  LET c == loadConnection(connectionId)
      p == loadProof(w.store, proofId)
      r == requestProof(p.proof, c.connection, transportOk, w.nextThread)
      sent == Dispatch(w, c.connection, r.sent)
  IN IF c.error # NoError
       THEN [Out(w) EXCEPT !.error = c.error, !.trace = <<"loadConnection">>]
     ELSE IF p.error # NoError
       THEN [Out(w) EXCEPT !.error = p.error,
                           !.trace = <<"loadConnection", "loadProof">>]
     ELSE IF r.error # NoError
       THEN [Out(w) EXCEPT !.error = r.error,
                           !.trace = <<"loadConnection", "loadProof", "requestProof">>]
     ELSE [Out(sent) EXCEPT
             !.world.store = saveProof(w.store, proofId, r.proof),
             !.state = Proof_getState(r.proof),
             !.message = getProofRequestMessage(r.proof),
             !.dispatched = <<[connection |-> c.connection, message |-> r.sent]>>,
             !.saves = <<proofId>>,
             !.trace = <<"loadConnection", "loadProof", "requestProof", "getState",
                         "getProofRequestMessage", "saveProof">>]

\* proofUpdate that catches what updateStateV2 throws and returns the state
\* it loaded.
proofUpdate_SwallowsError(w, proofId, connectionId, transportOk) ==
  LET p == loadProof(w.store, proofId)
      c == loadConnection(connectionId)
      u == updateStateV2(p.proof, c.connection, w.inbox[c.connection], transportOk)
  IN IF p.error # NoError
       THEN [Out(w) EXCEPT !.error = p.error, !.trace = <<"loadProof">>]
     ELSE IF c.error # NoError
       THEN [Out(w) EXCEPT !.error = c.error,
                           !.trace = <<"loadProof", "loadConnection">>]
     ELSE IF u.error # NoError
       THEN [Out(w) EXCEPT !.state = p.proof.state,
                           !.trace = <<"loadProof", "loadConnection", "updateStateV2">>]
     ELSE [Out(w) EXCEPT
             !.world.inbox[c.connection] = u.queue,
             !.world.store = saveProof(w.store, proofId, u.proof),
             !.state = u.state,
             !.polled = u.polled,
             !.saves = <<proofId>>,
             !.trace = <<"loadProof", "loadConnection", "updateStateV2", "saveProof">>]

\* proofUpdate that notes the polled connection in the record it saves.
proofUpdate_StampsConnection(w, proofId, connectionId, transportOk) ==
  LET p == loadProof(w.store, proofId)
      c == loadConnection(connectionId)
      u == updateStateV2(p.proof, c.connection, w.inbox[c.connection], transportOk)
  IN IF p.error # NoError
       THEN [Out(w) EXCEPT !.error = p.error, !.trace = <<"loadProof">>]
     ELSE IF c.error # NoError
       THEN [Out(w) EXCEPT !.error = c.error,
                           !.trace = <<"loadProof", "loadConnection">>]
     ELSE IF u.error # NoError
       THEN [Out(w) EXCEPT !.error = u.error,
                           !.trace = <<"loadProof", "loadConnection", "updateStateV2">>]
     ELSE [Out(w) EXCEPT
             !.world.inbox[c.connection] = u.queue,
             !.world.store = saveProof(w.store, proofId, [u.proof EXCEPT !.connectionId = c.connection]),
             !.state = u.state,
             !.polled = u.polled,
             !.saves = <<proofId>>,
             !.trace = <<"loadProof", "loadConnection", "updateStateV2", "saveProof">>]

\* proofUpdate that treats a rejection as a fault: it throws instead of saving.
proofUpdate_ThrowsOnRejected(w, proofId, connectionId, transportOk) ==
  LET p == loadProof(w.store, proofId)
      c == loadConnection(connectionId)
      u == updateStateV2(p.proof, c.connection, w.inbox[c.connection], transportOk)
  IN IF p.error # NoError
       THEN [Out(w) EXCEPT !.error = p.error, !.trace = <<"loadProof">>]
     ELSE IF c.error # NoError
       THEN [Out(w) EXCEPT !.error = c.error,
                           !.trace = <<"loadProof", "loadConnection">>]
     ELSE IF u.error # NoError
       THEN [Out(w) EXCEPT !.error = u.error,
                           !.trace = <<"loadProof", "loadConnection", "updateStateV2">>]
     ELSE IF u.state = "REJECTED"
       THEN [Out(w) EXCEPT !.error = Err("ValidationError", "presentation"),
                           !.trace = <<"loadProof", "loadConnection", "updateStateV2">>]
     ELSE [Out(w) EXCEPT
             !.world.inbox[c.connection] = u.queue,
             !.world.store = saveProof(w.store, proofId, u.proof),
             !.state = u.state,
             !.polled = u.polled,
             !.saves = <<proofId>>,
             !.trace = <<"loadProof", "loadConnection", "updateStateV2", "saveProof">>]

\* proofUpdate that saves the record as soon as it is loaded, and again at the end.
proofUpdate_SavesBeforePoll(w, proofId, connectionId, transportOk) ==
  LET p == loadProof(w.store, proofId)
      c == loadConnection(connectionId)
      u == updateStateV2(p.proof, c.connection, w.inbox[c.connection], transportOk)
  IN IF p.error # NoError
       THEN [Out(w) EXCEPT !.error = p.error, !.trace = <<"loadProof">>]
     ELSE IF c.error # NoError
       THEN [Out(w) EXCEPT !.error = c.error, !.saves = <<proofId>>,
                           !.trace = <<"loadProof", "saveProof", "loadConnection">>]
     ELSE IF u.error # NoError
       THEN [Out(w) EXCEPT !.error = u.error, !.saves = <<proofId>>,
                           !.trace = <<"loadProof", "saveProof", "loadConnection",
                                       "updateStateV2">>]
     ELSE [Out(w) EXCEPT
             !.world.inbox[c.connection] = u.queue,
             !.world.store = saveProof(w.store, proofId, u.proof),
             !.state = u.state,
             !.polled = u.polled,
             !.saves = <<proofId, proofId>>,
             !.trace = <<"loadProof", "saveProof", "loadConnection", "updateStateV2",
                         "saveProof">>]

\* proofUpdate that returns the state the record had when it was loaded.
proofUpdate_ReturnsStale(w, proofId, connectionId, transportOk) ==
  LET p == loadProof(w.store, proofId)
      c == loadConnection(connectionId)
      u == updateStateV2(p.proof, c.connection, w.inbox[c.connection], transportOk)
  IN IF p.error # NoError
       THEN [Out(w) EXCEPT !.error = p.error, !.trace = <<"loadProof">>]
     ELSE IF c.error # NoError
       THEN [Out(w) EXCEPT !.error = c.error,
                           !.trace = <<"loadProof", "loadConnection">>]
     ELSE IF u.error # NoError
       THEN [Out(w) EXCEPT !.error = u.error,
                           !.trace = <<"loadProof", "loadConnection", "updateStateV2">>]
     ELSE [Out(w) EXCEPT
             !.world.inbox[c.connection] = u.queue,
             !.world.store = saveProof(w.store, proofId, u.proof),
             !.state = p.proof.state,
             !.polled = u.polled,
             !.saves = <<proofId>>,
             !.trace = <<"loadProof", "loadConnection", "updateStateV2", "saveProof">>]

proofUpdate(w, proofId, connectionId, transportOk) ==
  LET p == loadProof(w.store, proofId)
      c == loadConnection(connectionId)
      u == updateStateV2(p.proof, c.connection, w.inbox[c.connection], transportOk)
  IN IF p.error # NoError
       THEN [Out(w) EXCEPT !.error = p.error, !.trace = <<"loadProof">>]
     ELSE IF c.error # NoError
       THEN [Out(w) EXCEPT !.error = c.error,
                           !.trace = <<"loadProof", "loadConnection">>]
     ELSE IF u.error # NoError
       THEN [Out(w) EXCEPT !.error = u.error,
                           !.trace = <<"loadProof", "loadConnection", "updateStateV2">>]
     ELSE [Out(w) EXCEPT
             !.world.inbox[c.connection] = u.queue,
             !.world.store = saveProof(w.store, proofId, u.proof),
             !.state = u.state,
             !.polled = u.polled,
             !.saves = <<proofId>>,
             !.trace = <<"loadProof", "loadConnection", "updateStateV2", "saveProof">>]

\* getState that writes the record it loaded back to the store.
getState_Resaves(w, proofId) ==
  LET p == loadProof(w.store, proofId)
  IN IF p.error # NoError
       THEN [Out(w) EXCEPT !.error = p.error, !.trace = <<"loadProof">>]
       ELSE [Out(w) EXCEPT !.world.store = saveProof(w.store, proofId, p.proof),
                           !.state = Proof_getState(p.proof),
                           !.saves = <<proofId>>,
                           !.trace = <<"loadProof", "getState", "saveProof">>]

getState(w, proofId) ==
  LET p == loadProof(w.store, proofId)
  IN IF p.error # NoError
       THEN [Out(w) EXCEPT !.error = p.error, !.trace = <<"loadProof">>]
       ELSE [Out(w) EXCEPT !.state = Proof_getState(p.proof),
                           !.trace = <<"loadProof", "getState">>]

\* listIds that loses the first id of the listing.
listIds_DropsFirst(w, order) ==
  [Out(w) EXCEPT !.ids = SubSeq(listProofIds(w.store, order), 2, Len(order)),
                 !.trace = <<"listProofIds">>]

listIds(w, order) ==
  [Out(w) EXCEPT !.ids = listProofIds(w.store, order), !.trace = <<"listProofIds">>]

\* The loop of printInfo from position i on, `done` being what the earlier
\* iterations did: a getState that throws ends the loop and the call.
RECURSIVE printInfoFrom(_, _, _, _)
printInfoFrom(w, ids, i, done) ==
  IF i > Len(ids) THEN done
  ELSE LET g == getState(w, ids[i])
       IN IF g.error # NoError
            THEN [done EXCEPT !.error = g.error, !.trace = @ \o g.trace]
            ELSE printInfoFrom(w, ids, i + 1,
                   [done EXCEPT
                      !.trace = @ \o g.trace \o <<"logger.info">>,
                      !.logged = Append(@, Line("info", "state", ids[i], g.state))])

printInfo(w, ids) == printInfoFrom(w, ids, 1, Out(w))

getVcxProof(w, proofId) ==
  LET p == loadProof(w.store, proofId)
      warned == [Out(w) EXCEPT !.logged = <<Line("warn", "usage", proofId, "")>>,
                               !.trace = <<"logger.warn", "loadProof">>]
  IN IF p.error # NoError
       THEN [warned EXCEPT !.error = p.error]
       ELSE [warned EXCEPT !.proof = p.proof]

\* ---------------------------------------------------------------- actions

\* The client at the prompt, its loop just entered: no input yet.
CliStart ==
  [pc |-> "prompt", cmd |-> "", answers |-> <<>>, invoked |-> <<>>,
   logged |-> <<>>, threw |-> FALSE]

\* No calls in flight.
NoRun == [tasks |-> <<>>, start |-> <<>>, overlapped |-> FALSE]

NoCall ==
  [op |-> "none", proofId |-> 0, connectionId |-> NoConnection, proofData |-> "",
   transportOk |-> TRUE, list |-> <<>>, pre |-> <<>>,
   available |-> NoPresentation, out |-> Out(<<>>)]

Init ==
  /\ store = <<>>
  /\ inbox = [c \in Connections |-> <<>>]
  /\ awaiting = {}
  /\ nextThread = 1
  /\ last = NoCall
  /\ created = {}
  /\ cli = CliStart
  /\ run = NoRun

\* What a poll for the call's record over the call's connection would find
\* first in the queue, on the record's thread (NoPresentation: nothing).
Queued(call) ==
  IF /\ call.op = "proofUpdate"
     /\ call.proofId \in DOMAIN store
     /\ call.connectionId \in Connections
    THEN LET m == Matching(store[call.proofId], inbox[call.connectionId])
         IN IF m = {} THEN NoPresentation ELSE inbox[call.connectionId][Min(m)]
    ELSE NoPresentation

\* A completed call: the collaborators take the state the call left, and `last`
\* records the call with the store it started from and the message queued
\* for it.
Complete(call, o) ==
  /\ store' = o.world.store
  /\ inbox' = o.world.inbox
  /\ awaiting' = o.world.awaiting
  /\ nextThread' = o.world.nextThread
  /\ last' = [call EXCEPT !.pre = store, !.available = Queued(call),
                          !.out = [o EXCEPT !.world = <<>>]]
  /\ created' = IF call.op = "createProof" /\ o.error = NoError
                  THEN created \cup {call.proofId}
                  ELSE created
  /\ UNCHANGED <<cli, run>>

CreateProof ==
  \E proofId \in ProofIds, proofData \in ProofDatas :
    Complete([NoCall EXCEPT !.op = "createProof", !.proofId = proofId,
                            !.proofData = proofData],
             createProof(World, proofId, proofData))

SendProofRequest ==
  \E connectionId \in ConnectionIds, proofId \in ProofIds, transportOk \in BOOLEAN :
    LET o == sendProofRequest(World, connectionId, proofId, transportOk)
    IN /\ o.world.nextThread <= MaxThreads + 1
       /\ Complete([NoCall EXCEPT !.op = "sendProofRequest", !.proofId = proofId,
                                  !.connectionId = connectionId,
                                  !.transportOk = transportOk], o)

ProofUpdate ==
  \E proofId \in ProofIds, connectionId \in ConnectionIds, transportOk \in BOOLEAN :
    Complete([NoCall EXCEPT !.op = "proofUpdate", !.proofId = proofId,
                            !.connectionId = connectionId,
                            !.transportOk = transportOk],
             proofUpdate(World, proofId, connectionId, transportOk))

GetState ==
  \E proofId \in ProofIds :
    Complete([NoCall EXCEPT !.op = "getState", !.proofId = proofId],
             getState(World, proofId))

ListIds ==
  \E order \in Orders(store) :
    Complete([NoCall EXCEPT !.op = "listIds"], listIds(World, order))

PrintInfo ==
  \E ids \in IdLists :
    Complete([NoCall EXCEPT !.op = "printInfo", !.list = ids], printInfo(World, ids))

GetVcxProof ==
  \E proofId \in ProofIds :
    Complete([NoCall EXCEPT !.op = "getVcxProof", !.proofId = proofId],
             getVcxProof(World, proofId))

\* The counterparty answers a dispatched proof request on its thread.
Deliver ==
  \E a \in awaiting, kind \in PresentationKinds :
    /\ inbox' = [inbox EXCEPT ![a[1]] = Append(@, [thread |-> a[2], kind |-> kind])]
    /\ awaiting' = awaiting \ {a}
    /\ UNCHANGED <<store, nextThread, last, created, cli, run>>

Next ==
  \/ CreateProof
  \/ SendProofRequest
  \/ ProofUpdate
  \/ GetState
  \/ ListIds
  \/ PrintInfo
  \/ GetVcxProof
  \/ Deliver

Spec == Init /\ [][Next]_vars

\* ------------------------------------------------------ interactive client

\* The menu of the client: command code -> label.
CommandCodes == {"0", "1", "2", "10", "11", "12", "13", "14", "20", "30", "31"}
commands(code) ==
  CASE code = "0" -> "ACCEPT_TAA"
    [] code = "1" -> "CREATE_SCHEMA"
    [] code = "2" -> "CREATE_CRED_DEF"
    [] code = "10" -> "CONNECTION_INVITER_CREATE"
    [] code = "11" -> "CONNECTION_INVITEE_ACCEPT"
    [] code = "12" -> "CONNECTION_PROGRESS"
    [] code = "13" -> "CONNECTION_INFO"
    [] code = "14" -> "CONNECTIONS_INFO"
    [] code = "20" -> "GET_CREDENTIAL_OFFERS"
    [] code = "30" -> "SEND_MESSAGE"
    [] code = "31" -> "GET_MESSAGE"

\* What the user may type at the prompt (the codes, nothing, and lines that
\* are no code) and in answer to a question.
CliInputs == CommandCodes \cup {"", "3", "01", "help"}
Answers == {"alice", "bob", "carol"}

\* One branch of the loop body: the questions it asks, what it logs before the
\* agent operation, the operation with the arguments it gets beside the
\* answers, and what it logs once the operation has returned.
Does(questions, before, op, extra, after) ==
  [questions |-> questions, before |-> before, op |-> op, extra |-> extra,
   after |-> after]

NoOperation == ""

\* A claim's mutant: the branches of SEND_MESSAGE and GET_MESSAGE exchanged.
Branch_SwapsMessages(cmd) ==
  IF cmd = "0" THEN
    Does(<<>>, <<"info: Going to accept taa">>, "acceptTaa", <<>>,
         <<"info: Taa accepted">>)
  ELSE IF cmd = "1" THEN
    Does(<<>>, <<"info: going to create schema">>, "createSchema",
         <<"sampleSchemaData">>, <<"info: Schema created">>)
  ELSE IF cmd = "2" THEN
    Does(<<"schemaId", "credDef name">>, <<"info: going to create cred def">>,
         "createCredentialDefinition", <<>>, <<"info: Credential definition">>)
  ELSE IF cmd = "10" THEN
    Does(<<"connection id">>, <<>>, "inviterConnectionCreateAndAccept",
         <<"callback">>, <<"info: Connection created">>)
  ELSE IF cmd = "11" THEN
    Does(<<"connection id", "invitation">>, <<>>,
         "inviteeConnectionAcceptFromInvitationAndProgress", <<>>, <<>>)
  ELSE IF cmd = "12" THEN
    Does(<<"connection id">>, <<>>, "connectionAutoupdate", <<>>, <<>>)
  ELSE IF cmd = "13" THEN
    Does(<<"connection id">>, <<>>, "connectionPrintInfo", <<>>, <<>>)
  ELSE IF cmd = "14" THEN
    Does(<<>>, <<"info: Listing connections">>, "connectionsList", <<>>, <<>>)
  ELSE IF cmd = "20" THEN
    Does(<<"connection id">>, <<>>, "getCredentialOffers", <<>>, <<>>)
  ELSE IF cmd = "31" THEN
    Does(<<"connection id", "message to send">>, <<>>, "sendMessage", <<>>, <<>>)
  ELSE IF cmd = "30" THEN
    Does(<<"connection id">>, <<>>, "getMessages", <<"[]", "[]">>,
         <<"info: Found messages">>)
  ELSE
    Does(<<>>, <<"error: Unknown command">>, NoOperation, <<>>, <<>>)

\* The if / else-if chain of the loop body.
Branch(cmd) ==
  IF cmd = "0" THEN
    Does(<<>>, <<"info: Going to accept taa">>, "acceptTaa", <<>>,
         <<"info: Taa accepted">>)
  ELSE IF cmd = "1" THEN
    Does(<<>>, <<"info: going to create schema">>, "createSchema",
         <<"sampleSchemaData">>, <<"info: Schema created">>)
  ELSE IF cmd = "2" THEN
    Does(<<"schemaId", "credDef name">>, <<"info: going to create cred def">>,
         "createCredentialDefinition", <<>>, <<"info: Credential definition">>)
  ELSE IF cmd = "10" THEN
    Does(<<"connection id">>, <<>>, "inviterConnectionCreateAndAccept",
         <<"callback">>, <<"info: Connection created">>)
  ELSE IF cmd = "11" THEN
    Does(<<"connection id", "invitation">>, <<>>,
         "inviteeConnectionAcceptFromInvitationAndProgress", <<>>, <<>>)
  ELSE IF cmd = "12" THEN
    Does(<<"connection id">>, <<>>, "connectionAutoupdate", <<>>, <<>>)
  ELSE IF cmd = "13" THEN
    Does(<<"connection id">>, <<>>, "connectionPrintInfo", <<>>, <<>>)
  ELSE IF cmd = "14" THEN
    Does(<<>>, <<"info: Listing connections">>, "connectionsList", <<>>, <<>>)
  ELSE IF cmd = "20" THEN
    Does(<<"connection id">>, <<>>, "getCredentialOffers", <<>>, <<>>)
  ELSE IF cmd = "30" THEN
    Does(<<"connection id", "message to send">>, <<>>, "sendMessage", <<>>, <<>>)
  ELSE IF cmd = "31" THEN
    Does(<<"connection id">>, <<>>, "getMessages", <<"[]", "[]">>,
         <<"info: Found messages">>)
  ELSE
    Does(<<>>, <<"error: Unknown command">>, NoOperation, <<>>, <<>>)

\* `world` stays as it is while the client runs.
CliOnly == UNCHANGED <<store, inbox, awaiting, nextThread, last, created, run>>

\* The prompt: a line is read.  An empty line does nothing; a line that is no
\* code is reported; a code goes on to its questions, or straight to its
\* operation.
CliPrompt ==
  /\ cli.pc = "prompt"
  /\ \E cmd \in CliInputs :
       LET b == Branch(cmd)
           read == [CliStart EXCEPT !.cmd = cmd]
       IN cli' = IF cmd = "" THEN read
                 ELSE IF b.op = NoOperation THEN [read EXCEPT !.logged = b.before]
                 ELSE IF b.questions # <<>> THEN [read EXCEPT !.pc = "ask"]
                 ELSE [read EXCEPT !.pc = "invoke", !.logged = b.before]
  /\ CliOnly

\* A question of the branch is asked and answered.
CliAsk ==
  /\ cli.pc = "ask"
  /\ \E answer \in Answers :
       LET b == Branch(cli.cmd)
           answers == Append(cli.answers, answer)
       IN cli' = IF Len(answers) < Len(b.questions)
                   THEN [cli EXCEPT !.answers = answers]
                   ELSE [cli EXCEPT !.answers = answers, !.pc = "invoke",
                                    !.logged = @ \o b.before]
  /\ CliOnly

\* The agent operation of the branch is awaited: it returns, and the loop goes
\* back to the prompt, or it throws, and the throw ends the loop and the client.
CliInvoke ==
  /\ cli.pc = "invoke"
  /\ \E returns \in BOOLEAN :
       LET b == Branch(cli.cmd)
           call == [op |-> b.op, args |-> cli.answers \o b.extra]
       IN cli' = IF returns
                   THEN [cli EXCEPT !.invoked = Append(@, call), !.pc = "prompt",
                                    !.logged = @ \o b.after]
                   ELSE [cli EXCEPT !.invoked = Append(@, call), !.pc = "rejected",
                                    !.threw = TRUE]
  /\ CliOnly

CliNext ==
  \/ CliPrompt
  \/ CliAsk
  \/ CliInvoke

SpecCli == Init /\ [][CliNext]_vars

\* ------------------------------------------------- calls in flight, by await

\* A call of sendProofRequest or proofUpdate in flight: its arguments, the
\* await it stands before, its local `connection` and `proof`, and what it
\* has returned or thrown once it is done.
FirstAwait(op) == IF op = "sendProofRequest" THEN "loadConnection" ELSE "loadProof"

Task(op, proofId, connectionId, transportOk) ==
  [op |-> op, proofId |-> proofId, connectionId |-> connectionId,
   transportOk |-> transportOk, pc |-> FirstAwait(op),
   connection |-> NoConnection, proof |-> NoProof,
   state |-> "", message |-> NoMessage, error |-> NoError]

Throws(t, error) == [t EXCEPT !.pc = "done", !.error = error]

\* sendProofRequest from one await to the next.
sendProofRequestStep(w, t) ==
  IF t.pc = "loadConnection" THEN
    LET c == loadConnection(t.connectionId)
    IN [world |-> w,
        task |-> IF c.error # NoError THEN Throws(t, c.error)
                 ELSE [t EXCEPT !.connection = c.connection, !.pc = "loadProof"]]
  ELSE IF t.pc = "loadProof" THEN
    LET p == loadProof(w.store, t.proofId)
    IN [world |-> w,
        task |-> IF p.error # NoError THEN Throws(t, p.error)
                 ELSE [t EXCEPT !.proof = p.proof, !.pc = "requestProof"]]
  ELSE IF t.pc = "requestProof" THEN
    LET r == requestProof(t.proof, t.connection, t.transportOk, w.nextThread)
    IN IF r.error # NoError
         THEN [world |-> w, task |-> Throws(t, r.error)]
         ELSE [world |-> Dispatch(w, t.connection, r.sent),
               task |-> [t EXCEPT !.proof = r.proof, !.pc = "getState"]]
  ELSE IF t.pc = "getState" THEN
    [world |-> w,
     task |-> [t EXCEPT !.state = Proof_getState(t.proof),
                        !.pc = "getProofRequestMessage"]]
  ELSE IF t.pc = "getProofRequestMessage" THEN
    [world |-> w,
     task |-> [t EXCEPT !.message = getProofRequestMessage(t.proof),
                        !.pc = "saveProof"]]
  ELSE
    [world |-> [w EXCEPT !.store = saveProof(w.store, t.proofId, t.proof)],
     task |-> [t EXCEPT !.pc = "done"]]

\* A claim's mutant: proofUpdate saves the record before it polls, and not
\* after.
proofUpdateStep_SavesBeforePoll(w, t) ==
  IF t.pc = "loadProof" THEN
    LET p == loadProof(w.store, t.proofId)
    IN [world |-> w,
        task |-> IF p.error # NoError THEN Throws(t, p.error)
                 ELSE [t EXCEPT !.proof = p.proof, !.pc = "loadConnection"]]
  ELSE IF t.pc = "loadConnection" THEN
    LET c == loadConnection(t.connectionId)
    IN [world |-> w,
        task |-> IF c.error # NoError THEN Throws(t, c.error)
                 ELSE [t EXCEPT !.connection = c.connection, !.pc = "saveProof"]]
  ELSE IF t.pc = "saveProof" THEN
    [world |-> [w EXCEPT !.store = saveProof(w.store, t.proofId, t.proof)],
     task |-> [t EXCEPT !.pc = "updateStateV2"]]
  ELSE
    LET u == updateStateV2(t.proof, t.connection, w.inbox[t.connection],
                           t.transportOk)
    IN IF u.error # NoError
         THEN [world |-> w, task |-> Throws(t, u.error)]
         ELSE [world |-> [w EXCEPT !.inbox[t.connection] = u.queue],
               task |-> [t EXCEPT !.proof = u.proof, !.state = u.state,
                                  !.pc = "done"]]

\* proofUpdate from one await to the next.
proofUpdateStep(w, t) ==
  IF t.pc = "loadProof" THEN
    LET p == loadProof(w.store, t.proofId)
    IN [world |-> w,
        task |-> IF p.error # NoError THEN Throws(t, p.error)
                 ELSE [t EXCEPT !.proof = p.proof, !.pc = "loadConnection"]]
  ELSE IF t.pc = "loadConnection" THEN
    LET c == loadConnection(t.connectionId)
    IN [world |-> w,
        task |-> IF c.error # NoError THEN Throws(t, c.error)
                 ELSE [t EXCEPT !.connection = c.connection, !.pc = "updateStateV2"]]
  ELSE IF t.pc = "updateStateV2" THEN
    LET u == updateStateV2(t.proof, t.connection, w.inbox[t.connection],
                           t.transportOk)
    IN IF u.error # NoError
         THEN [world |-> w, task |-> Throws(t, u.error)]
         ELSE [world |-> [w EXCEPT !.inbox[t.connection] = u.queue],
               task |-> [t EXCEPT !.proof = u.proof, !.state = u.state,
                                  !.pc = "saveProof"]]
  ELSE
    [world |-> [w EXCEPT !.store = saveProof(w.store, t.proofId, t.proof)],
     task |-> [t EXCEPT !.pc = "done"]]

\* A claim's mutant: `proof` is one variable of the service, shared by the
\* calls in flight, instead of a local of each call.
TaskStep_SharedProof(w, tasks, i) ==
  LET t == tasks[i]
      r == IF t.op = "sendProofRequest" THEN sendProofRequestStep(w, t)
                                        ELSE proofUpdateStep(w, t)
  IN [world |-> r.world,
      tasks |-> [j \in DOMAIN tasks |->
                   IF j = i THEN r.task
                   ELSE IF tasks[j].proof # NoProof /\ r.task.proof # NoProof
                     THEN [tasks[j] EXCEPT !.proof = r.task.proof]
                   ELSE tasks[j]]]

\* Call i of the calls in flight runs to its next await; the others stay.
TaskStep(w, tasks, i) ==
  LET t == tasks[i]
      r == IF t.op = "sendProofRequest" THEN sendProofRequestStep(w, t)
                                        ELSE proofUpdateStep(w, t)
  IN [world |-> r.world, tasks |-> [tasks EXCEPT ![i] = r.task]]

Idle == run = NoRun

\* Whether a call has begun and not yet ended.
InFlight(t) == t.pc # "done" /\ t.pc # FirstAwait(t.op)

\* Before the two calls: the service is used one call at a time, and the
\* counterparty answers; each call leaves the collaborators as it does in Spec.
Prepare ==
  /\ Idle
  /\ \/ \E o \in {createProof(World, proofId, proofData) :
                     proofId \in ProofIds, proofData \in ValidProofData}
                \cup {sendProofRequest(World, connectionId, proofId, TRUE) :
                        connectionId \in Connections, proofId \in ProofIds}
                \cup {proofUpdate(World, proofId, connectionId, TRUE) :
                        proofId \in ProofIds, connectionId \in Connections} :
          /\ o.error = NoError
          /\ o.world # World
          /\ o.world.nextThread <= MaxThreads + 1
          /\ store' = o.world.store
          /\ inbox' = o.world.inbox
          /\ awaiting' = o.world.awaiting
          /\ nextThread' = o.world.nextThread
          /\ UNCHANGED <<last, created, cli, run>>
     \/ Deliver

\* Two calls are made, neither awaited before the other is issued.
Launch ==
  /\ Idle
  /\ \E opA, opB \in {"sendProofRequest", "proofUpdate"},
        proofIdA, proofIdB \in ProofIds,
        connectionIdA, connectionIdB \in ConnectionIds,
        transportOkA, transportOkB \in BOOLEAN :
       run' = [tasks |-> <<Task(opA, proofIdA, connectionIdA, transportOkA),
                           Task(opB, proofIdB, connectionIdB, transportOkB)>>,
               start |-> World, overlapped |-> FALSE]
  /\ UNCHANGED <<store, inbox, awaiting, nextThread, last, created, cli>>

\* One of the calls in flight runs to its next await.
Resume ==
  /\ ~Idle
  /\ \E i \in DOMAIN run.tasks :
       /\ run.tasks[i].pc # "done"
       /\ LET r == TaskStep(World, run.tasks, i)
          IN /\ store' = r.world.store
             /\ inbox' = r.world.inbox
             /\ awaiting' = r.world.awaiting
             /\ nextThread' = r.world.nextThread
             /\ run' = [run EXCEPT
                          !.tasks = r.tasks,
                          !.overlapped =
                            \/ @
                            \/ \E j \in DOMAIN run.tasks :
                                 /\ \E k \in DOMAIN run.tasks :
                                      /\ k # j
                                      /\ r.tasks[k] # run.tasks[k]
                                 /\ InFlight(run.tasks[j])]
  /\ UNCHANGED <<last, created, cli>>

StepsNext ==
  \/ Prepare
  \/ Launch
  \/ Resume

SpecSteps == Init /\ [][StepsNext]_vars

\* ------------------------------------------------------ reading `last`

Called(op) == last.op = op
Threw(kind) == last.out.error.kind = kind
Returned == last.out.error = NoError

\* The record the last call's proofId named when the call began.
Existed == last.proofId \in DOMAIN last.pre
Before == last.pre[last.proofId]

\* Whether a message was queued for the poll of the last call.
Available == last.available # NoPresentation

\* s -> t is a defined transition of section 4.3, or no change.
Forward(s, t) ==
  \/ s = t
  \/ t = "FAILED"
  \/ s = "INITIAL" /\ t = "REQUEST_SENT"
  \/ s = "REQUEST_SENT" /\ t \in {"VERIFIED", "REJECTED"}

\* ---------------------------------------------------------------- claims

\* C1: createProof on a proofId that already has a record fails with
\* DuplicateId and leaves the stored record exactly as it was.
C1_DuplicateIdRejected ==
  (Called("createProof") /\ Existed) =>
    /\ Threw("DuplicateId")
    /\ store = last.pre

\* C2: printInfo logs and continues: every id of the list gets its line (its
\* state, or its failure), whatever happened to the ids before it.
C2_PrintInfoContinues ==
  Called("printInfo") =>
    \A i \in 1..Len(last.list) :
      \E k \in 1..Len(last.out.logged) : last.out.logged[k].id = last.list[i]

\* C3: sendProofRequest with an unresolvable connectionId or proofId fails with
\* NotFound, dispatches nothing, saves nothing, and leaves the store as it was.
C3_UnresolvableIsNotFound ==
  (Called("sendProofRequest") /\ (last.connectionId \notin Connections \/ ~Existed)) =>
    /\ Threw("NotFound")
    /\ last.out.dispatched = <<>>
    /\ last.out.saves = <<>>
    /\ \A i \in 1..Len(last.out.trace) :
         last.out.trace[i] \notin {"requestProof", "saveProof"}
    /\ store = last.pre

\* The record exists (a request was even sent for it) and the connection does not.
C3_Witness ==
  /\ Called("sendProofRequest")
  /\ last.connectionId \notin Connections
  /\ Existed
  /\ Threw("NotFound")
  /\ \E p \in DOMAIN store : store[p].state = "REQUEST_SENT"

\* The state machine call of the last sendProofRequest or proofUpdate was
\* reached (both ids resolved, the transition was not refused) while the
\* transport was failing.
TransportFailed ==
  /\ ~last.transportOk
  /\ Existed
  /\ last.connectionId \in Connections
  /\ \/ Called("sendProofRequest") /\ Before.state = "INITIAL"
     \/ Called("proofUpdate")

\* C4: a transport error during requestProof or updateState reaches the caller
\* as TransportError, and the store holds what it held before the call:
\* nothing is saved, no record changes state.
C4_TransportErrorLeavesRecord ==
  /\ TransportFailed =>
       /\ Threw("TransportError")
       /\ last.out.saves = <<>>
       /\ store = last.pre
  /\ Threw("TransportError") => TransportFailed

\* A poll of a record in REQUEST_SENT with an answer queued hit a transport error.
C4_Witness ==
  /\ Called("proofUpdate")
  /\ Threw("TransportError")
  /\ Existed
  /\ Before.state = "REQUEST_SENT"
  /\ Available
  /\ store[last.proofId].state = "REQUEST_SENT"

\* C5: a successful poll that found no message on the record's thread returns
\* the state the record had and leaves the store as it was, and so does the
\* same poll repeated from the state it left.
C5_PollWithoutMessageIsNoOp ==
  (Called("proofUpdate") /\ Returned /\ ~Available) =>
    /\ last.out.state = Before.state
    /\ store = last.pre
    /\ last.out.polled = NoPresentation
    /\ Matching(store[last.proofId], inbox[last.connectionId]) = {} =>
         LET again == proofUpdate(World, last.proofId, last.connectionId, TRUE)
         IN /\ again.error = NoError
            /\ again.state = last.out.state
            /\ again.world.store = store

\* A record in REQUEST_SENT was polled before the counterparty answered.
C5_Witness ==
  /\ Called("proofUpdate")
  /\ Returned
  /\ ~Available
  /\ Before.state = "REQUEST_SENT"
  /\ last.out.state = "REQUEST_SENT"

\* C6: proofId is unique in the store and no call moves a stored record
\* against the transitions of section 4.3 (nor drops it): a record is never
\* reset to an earlier state such as INITIAL.
C6_StateOnlyAdvances ==
  \A p \in DOMAIN last.pre :
    /\ p \in DOMAIN store
    /\ Forward(last.pre[p].state, store[p].state)

\* The last call polled a record in REQUEST_SENT over a working connection
\* whose queue held, first on the record's thread, a message of a kind in K.
PolledAnswer(K) ==
  /\ Called("proofUpdate")
  /\ last.transportOk
  /\ Existed
  /\ Before.state = "REQUEST_SENT"
  /\ Available
  /\ last.available.kind \in K

\* C7: the happy path.  A created record is INITIAL; sendProofRequest on it
\* over a working connection returns REQUEST_SENT with the (non-empty) message
\* it dispatched and persists both; proofUpdate with a valid presentation
\* queued then returns and persists VERIFIED.
C7_HappyPath ==
  /\ (Called("createProof") /\ Returned) =>
       /\ store[last.proofId].state = "INITIAL"
       /\ last.out.proof = store[last.proofId]
  /\ (/\ Called("sendProofRequest") /\ last.transportOk
      /\ last.connectionId \in Connections
      /\ Existed /\ Before.state = "INITIAL") =>
       /\ Returned
       /\ last.out.state = "REQUEST_SENT"
       /\ last.out.message # NoMessage
       /\ last.out.message.payload = Before.proofRequestPayload
       /\ last.out.dispatched =
            <<[connection |-> last.connectionId, message |-> last.out.message]>>
       /\ store[last.proofId].state = "REQUEST_SENT"
       /\ store[last.proofId].proofRequestMessage = last.out.message
  /\ PolledAnswer({"valid"}) =>
       /\ Returned
       /\ last.out.state = "VERIFIED"
       /\ store[last.proofId].state = "VERIFIED"

\* The scenario's last step: the poll that verified the presentation.
C7_Witness ==
  /\ PolledAnswer({"valid"})
  /\ last.out.state = "VERIFIED"
  /\ store[last.proofId].state = "VERIFIED"
  /\ store[last.proofId].proofRequestMessage # NoMessage

\* C8: a declined or invalid presentation does not make proofUpdate throw: it
\* returns REJECTED and persists REJECTED with lastError set; nothing is sent
\* again, and a further poll finds the record REJECTED still.
C8_RejectionIsAbsorbed ==
  PolledAnswer({"declined", "invalid"}) =>
    /\ Returned
    /\ last.out.state = "REJECTED"
    /\ store[last.proofId].state = "REJECTED"
    /\ store[last.proofId].lastError # ""
    /\ last.out.dispatched = <<>>
    /\ LET again == proofUpdate(World, last.proofId, last.connectionId, TRUE)
       IN /\ again.state = "REJECTED"
          /\ again.dispatched = <<>>
          /\ again.world.store = store

\* The counterparty declined and the poll returned REJECTED.
C8_Witness ==
  /\ PolledAnswer({"declined"})
  /\ last.out.state = "REJECTED"
  /\ store[last.proofId].lastError = "declined"

\* C9: createProof with valid proofData on a fresh proofId, followed at once
\* by getState of that proofId, returns INITIAL.
C9_CreateThenGetState ==
  (Called("createProof") /\ last.proofData \in ValidProofData /\ ~Existed) =>
    /\ Returned
    /\ LET next == getState(World, last.proofId)
       IN /\ next.error = NoError
          /\ next.state = "INITIAL"

\* A fresh proofId was created beside an older record.
C9_Witness ==
  /\ Called("createProof")
  /\ Returned
  /\ ~Existed
  /\ last.pre # <<>>
  /\ getState(World, last.proofId).state = "INITIAL"

\* C10: getState only reads: it calls loadProof and the record's getState and
\* nothing else, saves nothing, dispatches nothing, leaves the store as it
\* was; for an absent proofId it fails with NotFound, and otherwise returns
\* the stored state.
C10_GetStateIsPureRead ==
  Called("getState") =>
    /\ last.out.saves = <<>>
    /\ last.out.dispatched = <<>>
    /\ \A i \in 1..Len(last.out.trace) : last.out.trace[i] \in {"loadProof", "getState"}
    /\ store = last.pre
    /\ IF Existed THEN Returned /\ last.out.state = Before.state
                  ELSE Threw("NotFound")

\* getState was called on an absent proofId while the store held a record.
C10_Witness ==
  /\ Called("getState")
  /\ ~Existed
  /\ Threw("NotFound")
  /\ store # <<>>


Range(seq) == {seq[i] : i \in 1..Len(seq)}

\* C12: listIds returns, as a set, exactly the proofIds for which createProof
\* has returned: none missing, none extra.
C12_ListIdsIsCreatedIds ==
  Called("listIds") =>
    /\ Returned
    /\ Range(last.out.ids) = created

\* Every proofId was created and then listed.
C12_Witness ==
  /\ Called("listIds")
  /\ created = ProofIds
  /\ Range(last.out.ids) = ProofIds

\* C15: in createProof the record is created first, then the settle delay
\* elapses, and only then does the call return.
C15_SettleAfterCreation ==
  (Called("createProof") /\ Returned) =>
    \E i, j \in 1..Len(last.out.trace) :
      /\ i < j
      /\ last.out.trace[i] = "Proof.create"
      /\ last.out.trace[j] = "sleep"

\* C16: a call writes the store at most once, as its last collaborator step,
\* under its own proofId and only when every earlier step succeeded; a call
\* that throws leaves the store as it was; no call touches a record under
\* another proofId; getState, listIds, printInfo and getVcxProof never save.
C16_SingleFinalWrite ==
  LET t == last.out.trace
  IN /\ Len(last.out.saves) <= 1
     /\ Cardinality({i \in 1..Len(t) : t[i] = "saveProof"}) = Len(last.out.saves)
     /\ \A i \in 1..Len(t) : t[i] = "saveProof" => i = Len(t)
     /\ last.out.saves # <<>> =>
          /\ last.out.saves = <<last.proofId>>
          /\ last.op \in {"createProof", "sendProofRequest", "proofUpdate"}
          /\ Returned
     /\ ~Returned => store = last.pre
     /\ DOMAIN store \subseteq (DOMAIN last.pre) \cup {last.proofId}
     /\ \A p \in DOMAIN last.pre :
          p # last.proofId => p \in DOMAIN store /\ store[p] = last.pre[p]
     /\ last.op \in {"getState", "listIds", "printInfo", "getVcxProof"} =>
          last.out.saves = <<>> /\ store = last.pre

\* A poll changed one record while the store held another.
C16_Witness ==
  /\ Called("proofUpdate")
  /\ Returned
  /\ last.out.saves = <<last.proofId>>
  /\ store[last.proofId] # Before
  /\ \E p \in DOMAIN store : p # last.proofId

\* C17: the state sendProofRequest or proofUpdate returns is the state it
\* persisted: a getState of the same proofId issued next returns it.
C17_ReturnedStateIsPersisted ==
  ((Called("sendProofRequest") \/ Called("proofUpdate")) /\ Returned) =>
    LET next == getState(World, last.proofId)
    IN /\ next.error = NoError
       /\ next.state = last.out.state

\* A poll met a malformed answer and returned FAILED.
C17_Witness ==
  /\ PolledAnswer({"malformed"})
  /\ Returned
  /\ last.out.state = "FAILED"
  /\ getState(World, last.proofId).state = "FAILED"


\* The agent operation a menu label stands for.
Advertised(label) ==
  CASE label = "ACCEPT_TAA" -> "acceptTaa"
    [] label = "CREATE_SCHEMA" -> "createSchema"
    [] label = "CREATE_CRED_DEF" -> "createCredentialDefinition"
    [] label = "CONNECTION_INVITER_CREATE" -> "inviterConnectionCreateAndAccept"
    [] label = "CONNECTION_INVITEE_ACCEPT" ->
         "inviteeConnectionAcceptFromInvitationAndProgress"
    [] label = "CONNECTION_PROGRESS" -> "connectionAutoupdate"
    [] label = "CONNECTION_INFO" -> "connectionPrintInfo"
    [] label = "CONNECTIONS_INFO" -> "connectionsList"
    [] label = "GET_CREDENTIAL_OFFERS" -> "getCredentialOffers"
    [] label = "SEND_MESSAGE" -> "sendMessage"
    [] label = "GET_MESSAGE" -> "getMessages"

\* C18: in the client's loop an input invokes at most one agent operation: a
\* listed code invokes the operation its menu label stands for, with the
\* answers given, another non-empty line invokes nothing and is logged as an
\* unknown command, an empty line does nothing at all.  Once the input is
\* handled the loop is at the prompt again; the loop has no exit of its own:
\* it ends only when an awaited operation throws.
C18_OneActionPerInput ==
  /\ Len(cli.invoked) <= 1
  /\ \A i \in 1..Len(cli.invoked) :
       /\ cli.cmd \in CommandCodes
       /\ cli.invoked[i].op = Advertised(commands(cli.cmd))
       /\ SubSeq(cli.invoked[i].args, 1, Len(cli.answers)) = cli.answers
  /\ cli.pc = "prompt" =>
       /\ cli.cmd \in CommandCodes => Len(cli.invoked) = 1
       /\ (cli.cmd \notin CommandCodes /\ cli.cmd # "") =>
            cli.invoked = <<>> /\ cli.logged = <<"error: Unknown command">>
       /\ cli.cmd = "" => cli.invoked = <<>> /\ cli.logged = <<>>
  /\ cli.pc # "rejected" => ENABLED CliNext
  /\ cli.pc = "rejected" <=> cli.threw
  /\ cli.threw => Len(cli.invoked) = 1

\* SEND_MESSAGE was handled and the client is at the prompt again.
C18_Witness ==
  /\ cli.pc = "prompt"
  /\ cli.cmd = "30"
  /\ cli.invoked = <<[op |-> "sendMessage", args |-> <<"alice", "bob">>]>>


\* ---- two calls in flight

AllDone == ~Idle /\ \A i \in DOMAIN run.tasks : run.tasks[i].pc = "done"

\* The call of a task made as one whole, with nothing in between its steps.
Alone(w, t) ==
  IF t.op = "sendProofRequest"
    THEN sendProofRequest(w, t.connectionId, t.proofId, t.transportOk)
    ELSE proofUpdate(w, t.proofId, t.connectionId, t.transportOk)

SameResult(t, o) ==
  /\ t.error = o.error
  /\ t.state = o.state
  /\ t.message = o.message

\* The two calls ended as call i followed by call j, one after the other from
\* where they were launched, would have: same collaborators' state, same results.
AsIf(i, j) ==
  LET first == Alone(run.start, run.tasks[i])
      second == Alone(first.world, run.tasks[j])
  IN /\ World = second.world
     /\ SameResult(run.tasks[i], first)
     /\ SameResult(run.tasks[j], second)

DistinctProofIds == ~Idle /\ run.tasks[1].proofId # run.tasks[2].proofId

\* A call returned a state that the stored record does not reflect: the
\* record is behind it.
Lost ==
  /\ ~Idle
  /\ \E i \in DOMAIN run.tasks :
       LET t == run.tasks[i]
       IN /\ t.pc = "done"
          /\ t.error = NoError
          /\ ~Forward(t.state, store[t.proofId].state)

\* C13: two calls on different proofIds, whatever the interleaving of their
\* load, transition and save steps, end with the stored records (and the
\* channel) and the results of the two calls made one after the other.
C13_DistinctProofIdsInterleave ==
  (AllDone /\ DistinctProofIds) => (AsIf(1, 2) \/ AsIf(2, 1))

\* Two calls on different proofIds overlapped, each made its transition.
C13_Witness ==
  /\ AllDone
  /\ DistinctProofIds
  /\ run.overlapped
  /\ \A i \in DOMAIN run.tasks :
       /\ run.tasks[i].error = NoError
       /\ run.start.store[run.tasks[i].proofId].state # run.tasks[i].state

\* C14: when the calls for one proofId are made one at a time no update is
\* lost: the stored record reflects the state every completed call returned,
\* and the calls end as they would from the service used by one caller.  An
\* update is lost only if two calls on the same proofId overlap.
C14_SerializedLosesNothing ==
  /\ (~Idle /\ ~run.overlapped) => ~Lost
  /\ (AllDone /\ ~DistinctProofIds /\ ~run.overlapped) =>
       (AsIf(1, 2) \/ AsIf(2, 1))
  /\ Lost => (run.overlapped /\ ~DistinctProofIds)

\* Two overlapping proofUpdate calls on one proofId: one took the presentation
\* and saved VERIFIED, the other saved the REQUEST_SENT it had loaded over it.
C14_Witness ==
  /\ AllDone
  /\ Lost
  /\ \E i \in DOMAIN run.tasks :
       /\ run.tasks[i].op = "proofUpdate"
       /\ run.tasks[i].state = "VERIFIED"
       /\ store[run.tasks[i].proofId].state = "REQUEST_SENT"

====
